---- MODULE Spec2Model ----
(***************************************************************************)
(* Session / recording orchestration of stotra-multispeaker.               *)
(*                                                                         *)
(* The server is a single Node.js process.  Every HTTP or webhook handler  *)
(* runs synchronously up to its next `await` on external I/O (token        *)
(* signing, listParticipants, the 2 s timer, startRoomCompositeEgress,     *)
(* listEgress, stopEgress) and other handlers interleave at exactly those  *)
(* points.  Each action below is one such synchronous segment.  An `await` *)
(* of the in-memory recordingStorage.saveRecording resolves in the same    *)
(* microtask drain, before any I/O callback can run, so the code after it  *)
(* belongs to the same segment.                                            *)
(***************************************************************************)
EXTENDS Integers, Sequences, FiniteSets, TLC

VARIABLES
    sessions,     \* SessionService.sessions : Map sessionId -> session object
    recordings,   \* RecordingStorage.recordings : Map id -> recording
    jobs,         \* the egress service: job n has id EgressId(n)
    inflight,     \* handlers suspended at an await
    now,          \* Date.now(), in ms
    config,       \* config.r2 / config.server, fixed at process start
    nreq,         \* HTTP requests accepted so far
    nhook,        \* webhook requests accepted so far
    completions,  \* per job id: how often handleRecordingComplete ran for it
    started,      \* job ids that startRecording stored with setRecording
    last          \* the handler segment that ran last and what it answered

vars == <<sessions, recordings, jobs, inflight, now, config, nreq, nhook,
          completions, last>>

-----------------------------------------------------------------------------
(* Bounds of the model *)

MaxRequests == 3
MaxHooks == 2
MaxJobs == 2
MaxTicks == 1
TickMs == 1500
MaxCalls == 5

-----------------------------------------------------------------------------
(* Values *)

Null == "null"
NoTime == -1

Alice == "alice"
Bob == "bob"
TempCreator == "creator-x"

\* `user-${Date.now()}-${random}` of the n-th request
GeneratedIdentity(n) == "user-" \o ToString(n)

\* identity.startsWith('creator-')
StartsWithCreator(identity) == identity = TempCreator

IdChars == {"A", "B", "C", "D", "Z", "1", "2", "3", "4", "9"}
LowerChars == {"a", "b", "r"}
JoinerChars == {"-", "_"}

SidUpper == <<"A", "B", "C", "D", "1", "2", "3", "4">>
SidOther == <<"Z", "Z", "Z", "Z", "9", "9", "9", "9">>
SidRoom == <<"r", "-", "1">>
SidShort == <<"a", "b">>
SidBadChar == <<"a", "b", "!", "1">>
SidLong == [i \in 1..101 |-> "a"]

OldFormatMin == 8
OldFormatMax == 10
NewFormatMin == 3
NewFormatMax == 100

\* /^[A-Z0-9]{8,10}$/.test(sessionId)
MatchesOldFormat(sid) ==
    /\ Len(sid) >= OldFormatMin
    /\ Len(sid) <= OldFormatMax
    /\ \A i \in 1..Len(sid) : sid[i] \in IdChars

\* /^[a-zA-Z0-9\-_]{3,100}$/.test(sessionId)
MatchesNewFormat(sid) ==
    /\ Len(sid) >= NewFormatMin
    /\ Len(sid) <= NewFormatMax
    /\ \A i \in 1..Len(sid) : sid[i] \in IdChars \cup LowerChars \cup JoinerChars

\* faulty variant: the format check accepts every identifier
isValidFormatAcceptsAll(sid) == TRUE

isValidFormat(sid) == Len(sid) > 0 /\ (MatchesOldFormat(sid) \/ MatchesNewFormat(sid))

\* generateSessionId(): idLength characters drawn at random from idChars
idLength == 8
GeneratedIds == {s \in {SidUpper, SidOther} : Len(s) = idLength /\ \A i \in 1..Len(s) : s[i] \in IdChars}

EgressId(n) == "EG_" \o ToString(n)
JobIndex(js, egressId) == CHOOSE n \in 1..Len(js) : EgressId(n) = egressId
JobExists(js, egressId) == \E n \in 1..Len(js) : EgressId(n) = egressId

\* protobuf EgressStatus
EGRESS_STARTING == 0
EGRESS_ACTIVE == 1
EGRESS_ENDING == 2
EGRESS_COMPLETE == 3
EGRESS_FAILED == 4
EGRESS_ABORTED == 5

normalizeStatus(status) ==
    CASE status = 0 -> "EGRESS_STARTING"
      [] status = 1 -> "EGRESS_ACTIVE"
      [] status = 2 -> "EGRESS_ENDING"
      [] status = 3 -> "EGRESS_COMPLETE"
      [] status = 4 -> "EGRESS_FAILED"
      [] status = 5 -> "EGRESS_ABORTED"
      [] OTHER -> "UNKNOWN_" \o ToString(status)

-----------------------------------------------------------------------------
(* SessionService *)

\* faulty variant: the room keeps a name of its own
NewSessionOtherRoom(sid, creator, t, o) ==
    [sessionId |-> sid, roomName |-> SidOther, createdAt |-> t,
     creatorIdentity |-> creator, participants |-> <<>>,
     isRecording |-> FALSE, recordingEgressId |-> Null,
     recordingStartedAt |-> NoTime, oid |-> o]

NewSession(sid, creator, t, o) ==
    [sessionId |-> sid, roomName |-> sid, createdAt |-> t,
     creatorIdentity |-> creator, participants |-> <<>>,
     isRecording |-> FALSE, recordingEgressId |-> Null,
     recordingStartedAt |-> NoTime, oid |-> o]

sessionExists(ss, sid) == sid \in DOMAIN ss

Put(ss, sid, s) == [x \in DOMAIN ss \cup {sid} |-> IF x = sid THEN s ELSE ss[x]]

\* which object the key holds: a handler keeps a reference to the object, not to the key
Generation(ss, sid) == IF sessionExists(ss, sid) THEN ss[sid].oid ELSE 0

createSession(ss, sid, creator, t) ==
    Put(ss, sid, NewSession(sid, creator, t, Generation(ss, sid) + 1))

\* faulty variant: an existing session is replaced by a fresh one
createOrGetSessionAlwaysCreates(ss, sid, creator, t) == createSession(ss, sid, creator, t)

createOrGetSession(ss, sid, creator, t) ==
    IF sessionExists(ss, sid) THEN ss ELSE createSession(ss, sid, creator, t)

isCreator(ss, sid, identity) ==
    /\ sessionExists(ss, sid)
    /\ identity # Null
    /\ ss[sid].creatorIdentity = identity

Includes(seq, x) == \E i \in 1..Len(seq) : seq[i] = x

\* faulty variant: the identity is pushed without looking for it first
addParticipantAlwaysPushes(ss, sid, identity) ==
    [ss EXCEPT ![sid].participants = Append(@, identity)]

addParticipant(ss, sid, identity) ==
    IF Includes(ss[sid].participants, identity) THEN ss
    ELSE [ss EXCEPT ![sid].participants = Append(@, identity)]

removeParticipant(ss, sid, identity) ==
    IF ~sessionExists(ss, sid) THEN ss
    ELSE [ss EXCEPT ![sid].participants = SelectSeq(@, LAMBDA p : p # identity)]

getParticipantCount(ss, sid) == IF sessionExists(ss, sid) THEN Len(ss[sid].participants) ELSE 0

\* faulty variant: the session is rebuilt around the recording fields
setRecordingRebuildsSession(ss, sid, egressId, t) ==
    [ss EXCEPT ![sid] = [NewSession(sid, Null, ss[sid].createdAt, ss[sid].oid)
                           EXCEPT !.isRecording = TRUE,
                                  !.recordingEgressId = egressId,
                                  !.recordingStartedAt = t]]

\* faulty variant: a session that is recording keeps its job
setRecordingKeepsFirstJob(ss, sid, egressId, t) ==
    IF ss[sid].isRecording THEN ss
    ELSE [ss EXCEPT ![sid].isRecording = TRUE,
                    ![sid].recordingEgressId = egressId,
                    ![sid].recordingStartedAt = t]

setRecording(ss, sid, egressId, t) ==
    [ss EXCEPT ![sid].isRecording = TRUE,
               ![sid].recordingEgressId = egressId,
               ![sid].recordingStartedAt = t]

\* faulty variant: the flag is reset but the job id is kept
clearRecordingKeepsJob(ss, sid) ==
    IF ~sessionExists(ss, sid) THEN ss
    ELSE [ss EXCEPT ![sid].isRecording = FALSE]

clearRecording(ss, sid) ==
    IF ~sessionExists(ss, sid) THEN ss
    ELSE [ss EXCEPT ![sid].isRecording = FALSE, ![sid].recordingEgressId = Null]

\* no route and no webhook handler calls it
deleteSession(ss, sid) == [x \in DOMAIN ss \ {sid} |-> ss[x]]

-----------------------------------------------------------------------------
(* Bookkeeping of handlers *)

Handler(op, pc, sid, identity, n) ==
    [op |-> op, pc |-> pc, sid |-> sid, identity |-> identity, n |-> n,
     oid |-> 0, egressId |-> Null, result |-> Null, status |-> 0]

Remove(seq, i) == [k \in 1..(Len(seq) - 1) |-> IF k < i THEN seq[k] ELSE seq[k + 1]]

Segment(op, sid, identity, status, calls) ==
    [op |-> op, sid |-> sid, identity |-> identity, status |-> status, calls |-> calls,
     note |-> Null, body |-> [success |-> status = 200]]

\* the same, with why the handler answered as it did
Noted(segment, what) == [segment EXCEPT !.note = what]

\* the same, with the JSON body of the answer
Answering(segment, body) == [segment EXCEPT !.body = body]

Init ==
    /\ sessions = [x \in {} |-> x]
    /\ recordings = [x \in {} |-> x]
    /\ jobs = <<>>
    /\ inflight = <<>>
    /\ now = 0
    /\ config \in {[r2 |-> ok] : ok \in BOOLEAN}
    /\ nreq = 0
    /\ nhook = 0
    /\ completions = [x \in {} |-> 0]
    /\ started = {}
    /\ last = Segment("boot", <<>>, Null, 0, {})


-----------------------------------------------------------------------------
(* SessionService, one method call at a time *)

CallCreateOrGetSession(sid, identity) ==
    /\ nreq < MaxCalls
    /\ nreq' = nreq + 1
    /\ sessions' = createOrGetSession(sessions, sid, identity, now)
    /\ last' = Segment("createOrGetSession", sid, identity, 0, {})
    /\ UNCHANGED <<recordings, jobs, inflight, now, config, nhook, completions, started>>

CallAddParticipant(sid, identity) ==
    /\ nreq < MaxCalls
    /\ nreq' = nreq + 1
    /\ IF sessionExists(sessions, sid)
          THEN /\ sessions' = addParticipant(sessions, sid, identity)
               /\ last' = Segment("addParticipant", sid, identity, 0, {})
          ELSE /\ sessions' = sessions
               /\ last' = Noted(Segment("addParticipant", sid, identity, 0, {}),
                                "Session not found")
    /\ UNCHANGED <<recordings, jobs, inflight, now, config, nhook, completions, started>>

CallRemoveParticipant(sid, identity) ==
    /\ nreq < MaxCalls
    /\ nreq' = nreq + 1
    /\ sessions' = removeParticipant(sessions, sid, identity)
    /\ last' = Segment("removeParticipant", sid, identity, 0, {})
    /\ UNCHANGED <<recordings, jobs, inflight, now, config, nhook, completions, started>>

CallSetRecording(sid, egressId) ==
    /\ nreq < MaxCalls
    /\ nreq' = nreq + 1
    /\ IF sessionExists(sessions, sid)
          THEN /\ sessions' = setRecording(sessions, sid, egressId, now)
               /\ last' = Segment("setRecording", sid, egressId, 0, {})
          ELSE /\ sessions' = sessions
               /\ last' = Noted(Segment("setRecording", sid, egressId, 0, {}),
                                "Session not found")
    /\ UNCHANGED <<recordings, jobs, inflight, now, config, nhook, completions, started>>

CallClearRecording(sid) ==
    /\ nreq < MaxCalls
    /\ nreq' = nreq + 1
    /\ sessions' = clearRecording(sessions, sid)
    /\ last' = Segment("clearRecording", sid, Null, 0, {})
    /\ UNCHANGED <<recordings, jobs, inflight, now, config, nhook, completions, started>>

-----------------------------------------------------------------------------
(* RecordingStorage *)

FileInfos == {Null, "name", "url"}

\* handleRecordingComplete: egressInfo.file -> fileUrl
FileUrl(file) ==
    CASE file = "url" -> "direct"
      [] file = "name" -> "constructed"
      [] OTHER -> Null

\* faulty variant: the duration is rounded up
DurationRoundedUp(startedAt, endedAt) == (endedAt - startedAt + 999) \div 1000

Duration(startedAt, endedAt) == (endedAt - startedAt) \div 1000

saveRecording(rs, data, t) ==
    LET id == <<data.sessionId, t>>
        recording == [id |-> id, sessionId |-> data.sessionId,
                      startedAt |-> data.startedAt, endedAt |-> data.endedAt,
                      duration |-> data.duration, r2FileUrl |-> data.r2FileUrl,
                      egressId |-> data.egressId, createdAt |-> t]
    IN  [x \in DOMAIN rs \cup {id} |-> IF x = id THEN recording ELSE rs[x]]

-----------------------------------------------------------------------------
(* RecordingService.handleRecordingComplete *)

HoldersOf(ss, egressId) == {sid \in DOMAIN ss : ss[sid].recordingEgressId = egressId}

\* faulty variant: the record is saved but the session keeps its job id
handleRecordingCompleteKeepsFlag(ss, rs, egressId, status, file, t) ==
    IF HoldersOf(ss, egressId) = {} THEN [sessions |-> ss, recordings |-> rs]
    ELSE LET sid == CHOOSE x \in HoldersOf(ss, egressId) : TRUE
             session == ss[sid]
             startedAt == IF session.recordingStartedAt # NoTime
                          THEN session.recordingStartedAt ELSE t
             data == [sessionId |-> session.sessionId, startedAt |-> startedAt,
                      endedAt |-> t, duration |-> Duration(startedAt, t),
                      r2FileUrl |-> FileUrl(file), egressId |-> egressId]
         IN  [sessions |-> ss, recordings |-> saveRecording(rs, data, t)]

\* faulty variant: the session is cleared only when the job succeeded
handleRecordingCompleteClearsOnSuccess(ss, rs, egressId, status, file, t) ==
    IF HoldersOf(ss, egressId) = {} THEN [sessions |-> ss, recordings |-> rs]
    ELSE LET sid == CHOOSE x \in HoldersOf(ss, egressId) : TRUE
             session == ss[sid]
             isFailed == normalizeStatus(status) \in {"EGRESS_FAILED", "EGRESS_ABORTED"}
             startedAt == IF session.recordingStartedAt # NoTime
                          THEN session.recordingStartedAt ELSE t
             data == [sessionId |-> session.sessionId, startedAt |-> startedAt,
                      endedAt |-> t, duration |-> Duration(startedAt, t),
                      r2FileUrl |-> FileUrl(file), egressId |-> egressId,
                      status |-> normalizeStatus(status),
                      error |-> IF isFailed THEN "error" ELSE Null]
         IN  [sessions |-> IF isFailed THEN ss ELSE clearRecording(ss, session.sessionId),
              recordings |-> saveRecording(rs, data, t)]

\* faulty variant: a job that no session holds still gets a record
handleRecordingCompleteSavesOrphans(ss, rs, egressId, status, file, t) ==
    LET holders == HoldersOf(ss, egressId)
        sid == IF holders = {} THEN Null ELSE CHOOSE x \in holders : TRUE
        startedAt == IF holders # {} /\ ss[sid].recordingStartedAt # NoTime
                     THEN ss[sid].recordingStartedAt ELSE t
        data == [sessionId |-> sid, startedAt |-> startedAt,
                 endedAt |-> t, duration |-> Duration(startedAt, t),
                 r2FileUrl |-> FileUrl(file), egressId |-> egressId,
                 status |-> normalizeStatus(status), error |-> Null]
    IN  [sessions |-> IF holders = {} THEN ss ELSE clearRecording(ss, sid),
         recordings |-> saveRecording(rs, data, t)]

handleRecordingComplete(ss, rs, egressId, status, file, t) ==
    IF HoldersOf(ss, egressId) = {} THEN [sessions |-> ss, recordings |-> rs]
    ELSE LET sid == CHOOSE x \in HoldersOf(ss, egressId) : TRUE
             session == ss[sid]
             isFailed == normalizeStatus(status) \in {"EGRESS_FAILED", "EGRESS_ABORTED"}
             startedAt == IF session.recordingStartedAt # NoTime
                          THEN session.recordingStartedAt ELSE t
             data == [sessionId |-> session.sessionId, startedAt |-> startedAt,
                      endedAt |-> t, duration |-> Duration(startedAt, t),
                      r2FileUrl |-> FileUrl(file), egressId |-> egressId,
                      status |-> normalizeStatus(status),
                      error |-> IF isFailed THEN "error" ELSE Null]
         IN  [sessions |-> clearRecording(ss, session.sessionId),
              recordings |-> saveRecording(rs, data, t)]

\* where a statement inside the try block of handleRecordingComplete throws:
\* nowhere, before the session is looked up (reading or printing the job
\* descriptor), or in the save of the record
CompletionFaults == {"none", "descriptor", "save"}

\* faulty variant: the error leaves the function
handleRecordingCompleteUncaught(ss, rs, egressId, status, file, t, fault) ==
    IF fault = "descriptor" \/ (fault = "save" /\ HoldersOf(ss, egressId) # {})
    THEN [sessions |-> ss, recordings |-> rs, logged |-> FALSE, raised |-> TRUE]
    ELSE LET done == handleRecordingComplete(ss, rs, egressId, status, file, t)
         IN  [sessions |-> done.sessions, recordings |-> done.recordings,
              logged |-> FALSE, raised |-> FALSE]

\* handleRecordingComplete with its try and catch
handleRecordingCompleteCaught(ss, rs, egressId, status, file, t, fault) ==
    IF fault = "descriptor" \/ (fault = "save" /\ HoldersOf(ss, egressId) # {})
    THEN [sessions |-> ss, recordings |-> rs, logged |-> TRUE, raised |-> FALSE]
    ELSE LET done == handleRecordingComplete(ss, rs, egressId, status, file, t)
         IN  [sessions |-> done.sessions, recordings |-> done.recordings,
              logged |-> FALSE, raised |-> FALSE]

Bump(cs, egressId) ==
    [x \in DOMAIN cs \cup {egressId} |->
        IF x = egressId THEN (IF x \in DOMAIN cs THEN cs[x] ELSE 0) + 1 ELSE cs[x]]

-----------------------------------------------------------------------------
(* routes/sessions.js *)

\* POST /api/sessions/create
CreateRoute(creatorIdentity) ==
    /\ nreq < MaxRequests
    /\ \E sid \in GeneratedIds :
         /\ sessions' = createSession(sessions, sid, creatorIdentity, now)
         /\ last' = Segment("create", sid, creatorIdentity, 200, {})
    /\ nreq' = nreq + 1
    /\ UNCHANGED <<recordings, jobs, inflight, now, config, nhook, completions, started>>

\* faulty variant: the session is created without looking for an existing one
JoinBeginAlwaysCreates(sid, identity) ==
    /\ nreq < MaxRequests
    /\ nreq' = nreq + 1
    /\ IF ~isValidFormat(sid)
       THEN /\ last' = Segment("join", sid, identity, 400, {})
            /\ UNCHANGED <<sessions, inflight>>
       ELSE /\ sessions' = createSession(sessions, sid, identity, now)
            /\ inflight' = Append(inflight,
                 [Handler("join", "token", sid, identity, nreq + 1)
                     EXCEPT !.oid = sessions'[sid].oid])
            /\ last' = Segment("join", sid, identity, 0, {"toJwt"})
    /\ UNCHANGED <<recordings, jobs, now, config, nhook, completions, started>>

\* POST /api/sessions/:sessionId/join, up to `await tokenService.generateToken`
JoinBegin(sid, identity) ==
    /\ nreq < MaxRequests
    /\ nreq' = nreq + 1
    /\ IF ~sessionExists(sessions, sid) /\ ~isValidFormat(sid)
       THEN /\ last' = Segment("join", sid, identity, 400, {})
            /\ UNCHANGED <<sessions, inflight>>
       ELSE /\ sessions' = createOrGetSession(sessions, sid, identity, now)
            /\ inflight' = Append(inflight,
                 [Handler("join", "token", sid, identity, nreq + 1)
                     EXCEPT !.oid = sessions'[sid].oid])
            /\ last' = Segment("join", sid, identity, 0, {"toJwt"})
    /\ UNCHANGED <<recordings, jobs, now, config, nhook, completions, started>>

\* first joiner becomes the creator: runs on the session object the handler holds
AssignCreator(ss, sid, oid, tokenIdentity) ==
    IF /\ sessionExists(ss, sid)
       /\ ss[sid].oid = oid
       /\ Len(ss[sid].participants) = 0
       /\ (ss[sid].creatorIdentity = Null \/ StartsWithCreator(ss[sid].creatorIdentity))
    THEN [ss EXCEPT ![sid].creatorIdentity = tokenIdentity]
    ELSE ss

\* TokenService.generateToken: identity || `user-...`
TokenIdentity(identity, n) == IF identity # Null THEN identity ELSE GeneratedIdentity(n)

\* POST /api/sessions/:sessionId/join, after the token is signed (or signing threw)
JoinToken(i) ==
    /\ i \in 1..Len(inflight)
    /\ inflight[i].op = "join" /\ inflight[i].pc = "token"
    /\ LET h == inflight[i] IN
       \E signed \in BOOLEAN :
         /\ inflight' = Remove(inflight, i)
         /\ IF signed
            THEN /\ sessions' = AssignCreator(sessions, h.sid, h.oid, TokenIdentity(h.identity, h.n))
                 /\ last' = Segment("join", h.sid, TokenIdentity(h.identity, h.n), 200, {})
            ELSE /\ last' = Segment("join", h.sid, h.identity, 500, {})
                 /\ UNCHANGED sessions
    /\ UNCHANGED <<recordings, jobs, now, config, nreq, nhook, completions, started>>

\* GET /api/sessions/:sessionId
\* the session as GET reports it
SessionReport(session) ==
    [success |-> TRUE,
     sessionId |-> session.sessionId,
     createdAt |-> session.createdAt,
     creatorIdentity |-> session.creatorIdentity,
     participantCount |-> Len(session.participants),
     isRecording |-> session.isRecording]

\* GET status for a missing session
GetMissingStatus == 404

\* faulty variant: GET creates the session it does not find, as join does
GetRouteCreates(sid) ==
    /\ nreq < MaxRequests
    /\ nreq' = nreq + 1
    /\ sessions' = createOrGetSession(sessions, sid, Null, now)
    /\ last' = Answering(Segment("get", sid, Null, 200, {}), SessionReport(sessions'[sid]))
    /\ UNCHANGED <<recordings, jobs, inflight, now, config, nhook, completions, started>>

GetRoute(sid) ==
    /\ nreq < MaxRequests
    /\ nreq' = nreq + 1
    /\ last' = IF sessionExists(sessions, sid)
                 THEN Answering(Segment("get", sid, Null, 200, {}),
                                SessionReport(sessions[sid]))
                 ELSE Segment("get", sid, Null, GetMissingStatus, {})
    /\ UNCHANGED <<sessions, recordings, jobs, inflight, now, config, nhook, completions, started>>

-----------------------------------------------------------------------------
(* routes/webhooks.js *)

EventKinds == {"participant_joined", "participant_left", "egress_ended",
               "egress_started", "egress_failed", "room_finished"}

\* faulty variant: the switch has no case for egress_failed
DispatchWithoutFailed(kind) ==
    CASE kind = "participant_joined" -> "handleParticipantJoined"
      [] kind = "participant_left" -> "handleParticipantLeft"
      [] kind = "egress_ended" -> "handleEgressEnded"
      [] kind = "egress_started" -> "handleEgressStarted"
      [] OTHER -> "default"

\* faulty variant: egress_started falls into the egress_ended case
DispatchStartedAsEnded(kind) ==
    CASE kind = "participant_joined" -> "handleParticipantJoined"
      [] kind = "participant_left" -> "handleParticipantLeft"
      [] kind \in {"egress_ended", "egress_started", "egress_failed"} -> "handleEgressEnded"
      [] OTHER -> "default"

\* switch (event.event)
Dispatch(kind) ==
    CASE kind = "participant_joined" -> "handleParticipantJoined"
      [] kind = "participant_left" -> "handleParticipantLeft"
      [] kind = "egress_ended" -> "handleEgressEnded"
      [] kind = "egress_started" -> "handleEgressStarted"
      [] kind = "egress_failed" -> "handleEgressEnded"
      [] OTHER -> "default"

\* the objects of the event body that a handler dereferences
Reads(handler) ==
    CASE handler \in {"handleParticipantJoined", "handleParticipantLeft"}
            -> {"room", "participant"}
      [] handler \in {"handleEgressEnded", "handleEgressStarted"} -> {"egress"}
      [] OTHER -> {}

\* res.json({ success: true })
WebhookAcknowledged == 200

\* the route's catch: res.status(500)
WebhookErrorStatus == 500

\* faulty variant: the 401 is sent but the handler does not return
WebhookUnauthorizedGoesOn(kind) ==
    /\ nhook < MaxHooks
    /\ nhook' = nhook + 1
    /\ sessions' = IF Dispatch(kind) = "handleParticipantJoined"
                   THEN addParticipant(createOrGetSession(sessions, SidUpper, Null, now),
                                       SidUpper, Alice)
                   ELSE sessions
    /\ last' = Noted(Segment(kind, <<>>, Null, 401, {}), "unauthorized")
    /\ UNCHANGED <<recordings, jobs, inflight, now, config, nreq, completions, started>>

\* authorization header differs from `Bearer ${config.server.webhookSecret}`
WebhookUnauthorized(kind) ==
    /\ nhook < MaxHooks
    /\ nhook' = nhook + 1
    /\ last' = Noted(Segment(kind, <<>>, Null, 401, {}), "unauthorized")
    /\ UNCHANGED <<sessions, recordings, jobs, inflight, now, config, nreq, completions, started>>

\* an authorized event whose body lacks an object that its handler reads:
\* the handler throws a TypeError and the route's catch answers
WebhookMalformed(kind, missing, room) ==
    /\ nhook < MaxHooks
    /\ missing \in Reads(Dispatch(kind))
    /\ nhook' = nhook + 1
    /\ sessions' = IF missing = "participant"
                   THEN createOrGetSession(sessions, room, Null, now)
                   ELSE sessions
    /\ last' = Noted(Segment(kind, IF missing = "room" THEN <<>> ELSE room, Null,
                             WebhookErrorStatus, {}), missing)
    /\ UNCHANGED <<recordings, jobs, inflight, now, config, nreq, completions, started>>

\* faulty variant: the earlier design, which ignores events of unknown rooms
WebhookParticipantLeftNoCreate(room, identity) ==
    /\ nhook < MaxHooks
    /\ nhook' = nhook + 1
    /\ sessions' = removeParticipant(sessions, room, identity)
    /\ last' = Segment("participant_left", room, identity, WebhookAcknowledged, {})
    /\ UNCHANGED <<recordings, jobs, inflight, now, config, nreq, completions, started>>

\* faulty variant: the earlier design, which stops the recording when the
\* last participant has left
WebhookParticipantLeftAutoStop(room, identity) ==
    /\ nhook < MaxHooks
    /\ nhook' = nhook + 1
    /\ sessions' = removeParticipant(createOrGetSession(sessions, room, Null, now),
                                     room, identity)
    /\ IF getParticipantCount(sessions', room) = 0 /\ sessions'[room].isRecording
       THEN /\ inflight' = Append(inflight,
                  [Handler("stop", "listEgress", room, Null, 0)
                      EXCEPT !.egressId = sessions'[room].recordingEgressId,
                             !.result = "empty"])
            /\ last' = Segment("participant_left", room, identity, 200, {"listEgress"})
       ELSE /\ UNCHANGED inflight
            /\ last' = Segment("participant_left", room, identity, 200, {})
    /\ UNCHANGED <<recordings, jobs, now, config, nreq, completions, started>>

WebhookParticipantJoined(room, identity) ==
    /\ nhook < MaxHooks
    /\ nhook' = nhook + 1
    /\ sessions' = addParticipant(createOrGetSession(sessions, room, Null, now),
                                  room, identity)
    /\ last' = Segment("participant_joined", room, identity, WebhookAcknowledged, {})
    /\ UNCHANGED <<recordings, jobs, inflight, now, config, nreq, completions, started>>

WebhookParticipantLeft(room, identity) ==
    /\ nhook < MaxHooks
    /\ nhook' = nhook + 1
    /\ sessions' = removeParticipant(createOrGetSession(sessions, room, Null, now),
                                     room, identity)
    /\ last' = Segment("participant_left", room, identity, WebhookAcknowledged, {})
    /\ UNCHANGED <<recordings, jobs, inflight, now, config, nreq, completions, started>>

\* egress_started, and every event kind the switch does not name
WebhookIgnored(kind) ==
    /\ nhook < MaxHooks
    /\ Dispatch(kind) \in {"handleEgressStarted", "default"}
    /\ nhook' = nhook + 1
    /\ last' = Segment(kind, <<>>, Null, WebhookAcknowledged, {})
    /\ UNCHANGED <<sessions, recordings, jobs, inflight, now, config, nreq, completions, started>>

\* recordingService.stopPollingForCompletion(egressId)
stopPollingForCompletion(egressId) == TRUE

IsTerminal(status) == status \in {EGRESS_COMPLETE, EGRESS_FAILED, EGRESS_ABORTED}

\* egress_ended and egress_failed: handleEgressEnded(event)
WebhookEgressEnded(kind, n, file) ==
    /\ nhook < MaxHooks
    /\ n \in 1..Len(jobs)
    /\ IsTerminal(jobs[n].status)
    /\ Dispatch(kind) = "handleEgressEnded"
    /\ stopPollingForCompletion(EgressId(n))
    /\ nhook' = nhook + 1
    /\ LET done == handleRecordingComplete(sessions, recordings, EgressId(n),
                                           jobs[n].status, file, now)
       IN  /\ sessions' = done.sessions
           /\ recordings' = done.recordings
    /\ completions' = Bump(completions, EgressId(n))
    /\ last' = Segment(kind, jobs[n].room, Null, WebhookAcknowledged, {})
    /\ UNCHANGED <<jobs, inflight, now, config, nreq, started>>


\* the same event when a statement of the completion handling may throw
WebhookEgressEndedFaulted(kind, n, file, fault) ==
    /\ nhook < MaxHooks
    /\ n \in 1..Len(jobs)
    /\ IsTerminal(jobs[n].status)
    /\ Dispatch(kind) = "handleEgressEnded"
    /\ stopPollingForCompletion(EgressId(n))
    /\ nhook' = nhook + 1
    /\ LET done == handleRecordingCompleteCaught(sessions, recordings, EgressId(n),
                                                 jobs[n].status, file, now, fault)
       IN  /\ sessions' = done.sessions
           /\ recordings' = done.recordings
           /\ last' = Noted(Segment(kind, jobs[n].room, Null,
                                    IF done.raised THEN WebhookErrorStatus
                                    ELSE WebhookAcknowledged, {}),
                            IF done.raised THEN "egress"
                            ELSE IF done.logged THEN "logged" ELSE Null)
    /\ completions' = Bump(completions, EgressId(n))
    /\ UNCHANGED <<jobs, inflight, now, config, nreq, started>>

-----------------------------------------------------------------------------
(* The egress service and the media server (external collaborators) *)

NewJob(room) == [room |-> room, status |-> EGRESS_STARTING]

\* a job moves through its life cycle by itself
EgressProgress(n) ==
    /\ n \in 1..Len(jobs)
    /\ \E next \in 0..5 :
         /\ \/ jobs[n].status = EGRESS_STARTING /\ next \in {EGRESS_ACTIVE, EGRESS_FAILED}
            \/ jobs[n].status = EGRESS_ACTIVE
                 /\ next \in {EGRESS_ENDING, EGRESS_FAILED, EGRESS_ABORTED}
            \/ jobs[n].status = EGRESS_ENDING /\ next \in {EGRESS_COMPLETE, EGRESS_FAILED}
         /\ jobs' = [jobs EXCEPT ![n].status = next]
    /\ UNCHANGED <<sessions, recordings, inflight, now, config, nreq, nhook,
                   completions, last, started>>

Tick ==
    /\ now < MaxTicks * TickMs
    /\ now' = now + TickMs
    /\ UNCHANGED <<sessions, recordings, jobs, inflight, config, nreq, nhook,
                   completions, last, started>>

\* egressClient.listEgress([egressId]) as the service answers it
ListOutcomes(js, egressId) ==
    {[result |-> "error", status |-> 0], [result |-> "empty", status |-> 0]}
    \cup {[result |-> "found", status |-> js[n].status] :
            n \in {k \in 1..Len(js) : EgressId(k) = egressId}}

\* egressClient.stopEgress(egressId) as the service answers it
CanStop(js, egressId) ==
    /\ JobExists(js, egressId)
    /\ js[JobIndex(js, egressId)].status \in {EGRESS_STARTING, EGRESS_ACTIVE}

-----------------------------------------------------------------------------
(* routes/recordings.js and RecordingService.startRecording *)

\* faulty variant: the creator check is missing
StartPrecheckNoAuth(ss, sid, identity) ==
    IF ~sessionExists(ss, sid) THEN 404
    ELSE IF ss[sid].isRecording THEN 400
    ELSE 0

\* faulty variant: the already-recording check is missing
StartPrecheckNoBusy(ss, sid, identity) ==
    IF ~sessionExists(ss, sid) THEN 404
    ELSE IF ~isCreator(ss, sid, identity) THEN 403
    ELSE 0

\* the checks of POST /session/:sessionId/start; 0 = passed
StartPrecheck(ss, sid, identity) ==
    IF ~sessionExists(ss, sid) THEN 404
    ELSE IF ~isCreator(ss, sid, identity) THEN 403
    ELSE IF ss[sid].isRecording THEN 400
    ELSE 0

\* the start route's catch: res.status(500) for whatever startRecording threw
StartErrorStatus == 500

\* faulty variant: the storage configuration is not validated
R2ConfigNeverMissing(cfg) == FALSE

\* !config.r2.accessKeyId || !config.r2.secretAccessKey || !config.r2.bucket || !config.r2.endpoint
R2ConfigMissing(cfg) == ~cfg.r2

\* start route up to `await this.roomService.listParticipants(roomName)`
StartBegin(sid, identity) ==
    /\ nreq < MaxRequests
    /\ nreq' = nreq + 1
    /\ LET code == StartPrecheck(sessions, sid, identity) IN
       IF code # 0
       THEN /\ last' = Segment("start", sid, identity, code, {})
            /\ UNCHANGED inflight
       ELSE IF R2ConfigMissing(config)
       THEN /\ last' = Noted(Segment("start", sid, identity, StartErrorStatus, {}),
                                 "config")
            /\ UNCHANGED inflight
       ELSE /\ inflight' = Append(inflight,
                 Handler("start", "listParticipants", sid, identity, nreq + 1))
            /\ last' = Segment("start", sid, identity, 0, {"listParticipants"})
    /\ UNCHANGED <<sessions, recordings, jobs, now, config, nhook, completions, started>>

\* listParticipants answered: error, empty room, or participants present
StartListed(i) ==
    /\ i \in 1..Len(inflight)
    /\ inflight[i].op = "start" /\ inflight[i].pc = "listParticipants"
    /\ LET h == inflight[i] IN
       \E outcome \in {"error", "empty", "present"} :
         IF outcome = "present"
         THEN /\ inflight' = [inflight EXCEPT ![i].pc = "delay"]
              /\ last' = Segment("start", h.sid, h.identity, 0, {"setTimeout"})
         ELSE /\ inflight' = Remove(inflight, i)
              /\ last' = Noted(Segment("start", h.sid, h.identity,
                                        StartErrorStatus, {}), outcome)
    /\ UNCHANGED <<sessions, recordings, jobs, now, config, nreq, nhook, completions, started>>

\* the 2 s timer fired: startRoomCompositeEgress is sent and the service answers it
\* faulty variant: the session is marked recording when the request is sent
StartDelayedMarksEarly(i) ==
    /\ i \in 1..Len(inflight)
    /\ inflight[i].op = "start" /\ inflight[i].pc = "delay"
    /\ LET h == inflight[i] IN
       /\ \/ /\ Len(jobs) < MaxJobs
             /\ jobs' = Append(jobs, NewJob(h.sid))
             /\ inflight' = [inflight EXCEPT ![i].pc = "startEgress",
                                             ![i].result = EgressId(Len(jobs) + 1)]
          \/ /\ UNCHANGED jobs
             /\ inflight' = [inflight EXCEPT ![i].pc = "startEgress",
                                             ![i].result = "error"]
       /\ sessions' = setRecording(sessions, h.sid, Null, now)
       /\ last' = Segment("start", h.sid, h.identity, 0, {"startRoomCompositeEgress"})
    /\ UNCHANGED <<recordings, now, config, nreq, nhook, completions, started>>

StartDelayed(i) ==
    /\ i \in 1..Len(inflight)
    /\ inflight[i].op = "start" /\ inflight[i].pc = "delay"
    /\ LET h == inflight[i] IN
       /\ \/ /\ Len(jobs) < MaxJobs
             /\ jobs' = Append(jobs, NewJob(h.sid))
             /\ inflight' = [inflight EXCEPT ![i].pc = "startEgress",
                                             ![i].result = EgressId(Len(jobs) + 1)]
          \/ /\ UNCHANGED jobs
             /\ inflight' = [inflight EXCEPT ![i].pc = "startEgress",
                                             ![i].result = "error"]
       /\ last' = Segment("start", h.sid, h.identity, 0, {"startRoomCompositeEgress"})
    /\ UNCHANGED <<sessions, recordings, now, config, nreq, nhook, completions, started>>

\* startRoomCompositeEgress returned: setRecording and 200, or it threw: 500
\* faulty variant: a rejected start still marks the session as recording
StartReturnedMarksOnError(i) ==
    /\ i \in 1..Len(inflight)
    /\ inflight[i].op = "start" /\ inflight[i].pc = "startEgress"
    /\ LET h == inflight[i] IN
       /\ inflight' = Remove(inflight, i)
       /\ IF h.result = "error"
          THEN /\ last' = Noted(Segment("start", h.sid, h.identity,
                                         StartErrorStatus, {}), "egress")
               /\ sessions' = setRecording(sessions, h.sid, Null, now)
               /\ UNCHANGED started
          ELSE /\ sessions' = setRecording(sessions, h.sid, h.result, now)
               /\ started' = started \cup {h.result}
               /\ last' = Answering(Segment("start", h.sid, h.identity, 200, {}),
                                    [success |-> TRUE, egressId |-> h.result])
    /\ UNCHANGED <<recordings, jobs, now, config, nreq, nhook, completions>>

StartReturned(i) ==
    /\ i \in 1..Len(inflight)
    /\ inflight[i].op = "start" /\ inflight[i].pc = "startEgress"
    /\ LET h == inflight[i] IN
       /\ inflight' = Remove(inflight, i)
       /\ IF h.result = "error" \/ ~sessionExists(sessions, h.sid)
          THEN /\ last' = Noted(Segment("start", h.sid, h.identity,
                                         StartErrorStatus, {}), "egress")
               /\ UNCHANGED <<sessions, started>>
          ELSE /\ sessions' = setRecording(sessions, h.sid, h.result, now)
               /\ started' = started \cup {h.result}
               /\ last' = Answering(Segment("start", h.sid, h.identity, 200, {}),
                                    [success |-> TRUE, egressId |-> h.result])
    /\ UNCHANGED <<recordings, jobs, now, config, nreq, nhook, completions>>

-----------------------------------------------------------------------------
(* routes/recordings.js and RecordingService.stopRecording *)

\* the checks of POST /session/:sessionId/stop; 0 = passed
StopPrecheck(ss, sid, identity) ==
    IF ~sessionExists(ss, sid) THEN 404
    ELSE IF ~isCreator(ss, sid, identity) THEN 403
    ELSE IF ~ss[sid].isRecording \/ ss[sid].recordingEgressId = Null THEN 400
    ELSE 0

\* stop route up to `await this.egressClient.listEgress([egressId])`
StopBegin(sid, identity) ==
    /\ nreq < MaxRequests
    /\ nreq' = nreq + 1
    /\ LET code == StopPrecheck(sessions, sid, identity) IN
       IF code # 0
       THEN /\ last' = Segment("stop", sid, identity, code, {})
            /\ UNCHANGED inflight
       ELSE /\ \E out \in ListOutcomes(jobs, sessions[sid].recordingEgressId) :
                 inflight' = Append(inflight,
                    [Handler("stop", "listEgress", sid, identity, nreq + 1)
                        EXCEPT !.egressId = sessions[sid].recordingEgressId,
                               !.result = out.result, !.status = out.status])
            /\ last' = Segment("stop", sid, identity, 0, {"listEgress"})
    /\ UNCHANGED <<sessions, recordings, jobs, now, config, nhook, completions, started>>

\* what the stop route does once stopRecording has returned
\* faulty variant: the stop route cleans the session up
StopFinishDeletesSession(ss, sid) == deleteSession(ss, sid)

StopFinish(ss, sid) == clearRecording(ss, sid)

\* faulty variant: any job that has ended counts as failed
IsFailedStatusOrEnded(status) ==
    normalizeStatus(status) \in {"EGRESS_FAILED", "EGRESS_ABORTED", "EGRESS_COMPLETE"}

IsFailedStatus(status) == normalizeStatus(status) \in {"EGRESS_FAILED", "EGRESS_ABORTED"}

\* stopRecording resumed with the egress list
\* what stopRecording found when it asked for the job
Found(result, status) == IF result = "found" THEN normalizeStatus(status) ELSE result

\* faulty variant: a job that is ending or complete is finalized at once
StopDecisionFinalizesEnded(result, status) ==
    IF result # "found" THEN "return"
    ELSE IF normalizeStatus(status) \in {"EGRESS_FAILED", "EGRESS_ABORTED",
                                         "EGRESS_COMPLETE", "EGRESS_ENDING"}
    THEN "complete"
    ELSE "stop"

\* what stopRecording does with the answer of listEgress
StopDecision(result, status) ==
    IF result # "found" THEN "return"
    ELSE IF normalizeStatus(status) \in {"EGRESS_FAILED", "EGRESS_ABORTED"} THEN "complete"
    ELSE IF normalizeStatus(status) \in {"EGRESS_COMPLETE", "EGRESS_ENDING"} THEN "return"
    ELSE "stop"

StopListed(i) ==
    /\ i \in 1..Len(inflight)
    /\ inflight[i].op = "stop" /\ inflight[i].pc = "listEgress"
    /\ LET h == inflight[i]
           decision == StopDecision(h.result, h.status)
       IN
       IF decision = "stop"
       THEN /\ \/ /\ CanStop(jobs, h.egressId)
                  /\ jobs' = [jobs EXCEPT ![JobIndex(jobs, h.egressId)].status = EGRESS_ENDING]
                  /\ inflight' = [inflight EXCEPT ![i].pc = "stopEgress", ![i].result = "ok"]
               \/ /\ ~CanStop(jobs, h.egressId)
                  /\ UNCHANGED jobs
                  /\ inflight' = [inflight EXCEPT ![i].pc = "stopEgress", ![i].result = "412"]
               \/ /\ UNCHANGED jobs
                  /\ inflight' = [inflight EXCEPT ![i].pc = "stopEgress", ![i].result = "error"]
            /\ last' = Segment("stop", h.sid, h.identity, 0, {"stopEgress"})
            /\ UNCHANGED <<sessions, recordings, completions>>
       ELSE IF decision = "complete"
       THEN /\ \E file \in FileInfos :
                 LET done == handleRecordingComplete(sessions, recordings, h.egressId,
                                                     h.status, file, now)
                 IN  /\ sessions' = StopFinish(done.sessions, h.sid)
                     /\ recordings' = done.recordings
            /\ completions' = Bump(completions, h.egressId)
            /\ inflight' = Remove(inflight, i)
            /\ last' = Noted(Segment("stop", h.sid, h.identity, 200, {}),
                             Found(h.result, h.status))
            /\ UNCHANGED jobs
       ELSE /\ sessions' = StopFinish(sessions, h.sid)
            /\ inflight' = Remove(inflight, i)
            /\ last' = Noted(Segment("stop", h.sid, h.identity, 200, {}),
                             Found(h.result, h.status))
            /\ UNCHANGED <<recordings, jobs, completions>>
    /\ UNCHANGED <<now, config, nreq, nhook, started>>

\* stopEgress returned or threw
StopStopped(i) ==
    /\ i \in 1..Len(inflight)
    /\ inflight[i].op = "stop" /\ inflight[i].pc = "stopEgress"
    /\ LET h == inflight[i] IN
       IF h.result = "412"
       THEN /\ \E out \in ListOutcomes(jobs, h.egressId) :
                 inflight' = [inflight EXCEPT ![i].pc = "relist",
                                              ![i].result = out.result,
                                              ![i].status = out.status]
            /\ last' = Segment("stop", h.sid, h.identity, 0, {"listEgress"})
            /\ UNCHANGED sessions
       ELSE /\ sessions' = StopFinish(sessions, h.sid)
            /\ inflight' = Remove(inflight, i)
            /\ last' = Noted(Segment("stop", h.sid, h.identity, 200, {}), h.result)
    /\ UNCHANGED <<recordings, jobs, now, config, nreq, nhook, completions, started>>

\* what the re-query after a failed_precondition found
Rechecked(result, status) == "412 " \o Found(result, status)

\* the status re-queried after a failed_precondition
StopRelisted(i) ==
    /\ i \in 1..Len(inflight)
    /\ inflight[i].op = "stop" /\ inflight[i].pc = "relist"
    /\ LET h == inflight[i] IN
       /\ IF h.result = "found" /\ IsFailedStatus(h.status)
          THEN /\ \E file \in FileInfos :
                    LET done == handleRecordingComplete(sessions, recordings, h.egressId,
                                                        h.status, file, now)
                    IN  /\ sessions' = StopFinish(done.sessions, h.sid)
                        /\ recordings' = done.recordings
               /\ completions' = Bump(completions, h.egressId)
          ELSE /\ sessions' = StopFinish(sessions, h.sid)
               /\ UNCHANGED <<recordings, completions>>
       /\ inflight' = Remove(inflight, i)
       /\ last' = Noted(Segment("stop", h.sid, h.identity, 200, {}),
                        Rechecked(h.result, h.status))
    /\ UNCHANGED <<jobs, now, config, nreq, nhook, started>>

-----------------------------------------------------------------------------
(* Specifications *)

Identities == {Alice, Bob}
JoinIdentities == {Alice, Bob, Null}
SessionIds == {SidUpper}
RoomNames == {SidUpper, SidShort}
JoinIds == {SidUpper, SidRoom, SidShort}
MalformedIds == {SidBadChar, SidLong}

\* recording control: join, start, stop, the egress service and its events
Next ==
    \/ \E sid \in SessionIds, identity \in Identities : JoinBegin(sid, identity)
    \/ \E i \in 1..Len(inflight) : JoinToken(i)
    \/ \E sid \in SessionIds, identity \in Identities : StartBegin(sid, identity)
    \/ \E i \in 1..Len(inflight) : StartListed(i)
    \/ \E i \in 1..Len(inflight) : StartDelayed(i)
    \/ \E i \in 1..Len(inflight) : StartReturned(i)
    \/ \E sid \in SessionIds, identity \in Identities : StopBegin(sid, identity)
    \/ \E i \in 1..Len(inflight) : StopListed(i)
    \/ \E i \in 1..Len(inflight) : StopStopped(i)
    \/ \E i \in 1..Len(inflight) : StopRelisted(i)
    \/ \E n \in 1..Len(jobs) : EgressProgress(n)
    \/ \E n \in 1..Len(jobs), kind \in {"egress_ended", "egress_failed"}, file \in FileInfos :
          WebhookEgressEnded(kind, n, file)
    \/ Tick

Spec == Init /\ [][Next]_vars

\* session registry: create, join, read, participant events
NextJoin ==
    \/ \E creatorIdentity \in {TempCreator, Null} : CreateRoute(creatorIdentity)
    \/ \E sid \in JoinIds, identity \in JoinIdentities : JoinBegin(sid, identity)
    \/ \E sid \in MalformedIds : JoinBegin(sid, Alice)
    \/ \E i \in 1..Len(inflight) : JoinToken(i)
    \/ \E room \in RoomNames, identity \in Identities : WebhookParticipantJoined(room, identity)
    \/ \E room \in RoomNames, identity \in Identities : WebhookParticipantLeft(room, identity)

InitJoin == Init /\ config.r2

SpecJoin == InitJoin /\ [][NextJoin]_vars

\* the webhook endpoint, with one creator who can start recordings
HookRooms == {SidUpper}

NextHooks ==
    \/ JoinBegin(SidUpper, Alice)
    \/ \E i \in 1..Len(inflight) : JoinToken(i)
    \/ StartBegin(SidUpper, Alice)
    \/ \E i \in 1..Len(inflight) : StartListed(i)
    \/ \E i \in 1..Len(inflight) : StartDelayed(i)
    \/ \E i \in 1..Len(inflight) : StartReturned(i)
    \/ \E n \in 1..Len(jobs) : EgressProgress(n)
    \/ \E kind \in EventKinds : WebhookUnauthorized(kind)
    \/ \E kind \in EventKinds, missing \in {"room", "participant", "egress"},
          room \in HookRooms : WebhookMalformed(kind, missing, room)
    \/ \E room \in HookRooms, identity \in Identities :
          WebhookParticipantJoined(room, identity)
    \/ \E room \in HookRooms, identity \in Identities :
          WebhookParticipantLeft(room, identity)
    \/ \E kind \in EventKinds : WebhookIgnored(kind)
    \/ \E kind \in EventKinds, n \in 1..Len(jobs), file \in FileInfos :
          WebhookEgressEnded(kind, n, file)

SpecHooks == InitJoin /\ [][NextHooks]_vars

\* the server after alice's first join of ABCD1234 was answered: she is the
\* creator and no participant event has arrived yet
InitJoined ==
    /\ sessions = createOrGetSession([x \in {} |-> x], SidUpper, Alice, 0)
    /\ recordings = [x \in {} |-> x]
    /\ jobs = <<>>
    /\ inflight = <<>>
    /\ now = 0
    /\ config = [r2 |-> TRUE]
    /\ nreq = 0
    /\ nhook = 0
    /\ completions = [x \in {} |-> 0]
    /\ started = {}
    /\ last = Segment("join", SidUpper, Alice, 200, {})

\* the creator's start and stop requests racing each other and the egress events
NextStop ==
    \/ StartBegin(SidUpper, Alice)
    \/ \E i \in 1..Len(inflight) : StartListed(i)
    \/ \E i \in 1..Len(inflight) : StartDelayed(i)
    \/ \E i \in 1..Len(inflight) : StartReturned(i)
    \/ StopBegin(SidUpper, Alice)
    \/ \E i \in 1..Len(inflight) : StopListed(i)
    \/ \E i \in 1..Len(inflight) : StopStopped(i)
    \/ \E i \in 1..Len(inflight) : StopRelisted(i)
    \/ \E n \in 1..Len(jobs) : EgressProgress(n)
    \/ \E n \in 1..Len(jobs), file \in FileInfos : WebhookEgressEnded("egress_ended", n, file)

SpecStop == InitJoined /\ [][NextStop]_vars

\* completion events whose handling may throw inside its try block
NextFaults ==
    \/ StartBegin(SidUpper, Alice)
    \/ \E i \in 1..Len(inflight) : StartListed(i)
    \/ \E i \in 1..Len(inflight) : StartDelayed(i)
    \/ \E i \in 1..Len(inflight) : StartReturned(i)
    \/ \E n \in 1..Len(jobs) : EgressProgress(n)
    \/ \E kind \in {"egress_ended", "egress_failed"}, n \in 1..Len(jobs),
          file \in FileInfos, fault \in CompletionFaults :
          WebhookEgressEndedFaulted(kind, n, file, fault)

SpecFaults == InitJoined /\ [][NextFaults]_vars

\* every handler of the server, for one creator and one other participant
NextLife ==
    \/ CreateRoute(Null)
    \/ JoinBegin(SidUpper, Alice)
    \/ \E i \in 1..Len(inflight) : JoinToken(i)
    \/ GetRoute(SidUpper)
    \/ StartBegin(SidUpper, Alice)
    \/ \E i \in 1..Len(inflight) : StartListed(i)
    \/ \E i \in 1..Len(inflight) : StartDelayed(i)
    \/ \E i \in 1..Len(inflight) : StartReturned(i)
    \/ StopBegin(SidUpper, Alice)
    \/ \E i \in 1..Len(inflight) : StopListed(i)
    \/ \E i \in 1..Len(inflight) : StopStopped(i)
    \/ \E i \in 1..Len(inflight) : StopRelisted(i)
    \/ \E n \in 1..Len(jobs) : EgressProgress(n)
    \/ WebhookParticipantJoined(SidUpper, Bob)
    \/ WebhookParticipantLeft(SidUpper, Bob)
    \/ WebhookIgnored("room_finished")
    \/ \E n \in 1..Len(jobs), file \in FileInfos : WebhookEgressEnded("egress_ended", n, file)

SpecLife == InitJoin /\ [][NextLife]_vars

\* reading sessions while one creator joins, starts and participants come and go
ReadIds == {SidUpper, SidRoom}

NextRead ==
    \/ JoinBegin(SidUpper, Alice)
    \/ \E i \in 1..Len(inflight) : JoinToken(i)
    \/ StartBegin(SidUpper, Alice)
    \/ \E i \in 1..Len(inflight) : StartListed(i)
    \/ \E i \in 1..Len(inflight) : StartDelayed(i)
    \/ \E i \in 1..Len(inflight) : StartReturned(i)
    \/ \E identity \in Identities : WebhookParticipantJoined(SidUpper, identity)
    \/ \E identity \in Identities : WebhookParticipantLeft(SidUpper, identity)
    \/ \E sid \in ReadIds : GetRoute(sid)

SpecRead == InitJoin /\ [][NextRead]_vars

\* the Session Registry by itself: any caller, any order of method calls
RegistryIds == {SidUpper, SidOther}
RegistryJobs == {EgressId(1), EgressId(2)}

NextRegistry ==
    \/ \E sid \in RegistryIds, identity \in Identities : CallCreateOrGetSession(sid, identity)
    \/ \E sid \in RegistryIds, identity \in Identities : CallAddParticipant(sid, identity)
    \/ \E sid \in RegistryIds, identity \in Identities : CallRemoveParticipant(sid, identity)
    \/ \E sid \in RegistryIds, egressId \in RegistryJobs : CallSetRecording(sid, egressId)
    \/ \E sid \in RegistryIds : CallClearRecording(sid)
    \/ Tick

SpecRegistry == InitJoin /\ [][NextRegistry]_vars

-----------------------------------------------------------------------------
(* Properties *)

BeginOf(ops) == nreq' = nreq + 1 /\ last'.op \in ops
NoEffect == sessions' = sessions /\ recordings' = recordings /\ jobs' = jobs
NothingIssued == last'.calls = {} /\ inflight' = inflight

JobsInFlight(room) ==
    {n \in 1..Len(jobs) : jobs[n].room = room /\ ~IsTerminal(jobs[n].status)}

RecordsOf(rs, egressId) == {id \in DOMAIN rs : rs[id].egressId = egressId}

\* C1: a session never has two egress jobs that are both not yet terminated
C1_OneJobInFlight ==
    \A sid \in DOMAIN sessions : Cardinality(JobsInFlight(sid)) <= 1

\* C2: for every session, isRecording is true exactly when recordingEgressId is present
C2_FlagIffJobId ==
    \A sid \in DOMAIN sessions :
        sessions[sid].isRecording <=> sessions[sid].recordingEgressId # Null

C2_Witness ==
    \E sid \in DOMAIN sessions :
        /\ ~sessions[sid].isRecording
        /\ sessions[sid].recordingStartedAt # NoTime
        /\ \E id \in DOMAIN recordings : recordings[id].sessionId = sid

\* C3: handling the completion of a job that a successful start stored in a
\* session leaves exactly one Recording Record for that job
C3_CompletionSavesRecord ==
    [][\A j \in started :
          (j \in DOMAIN completions' /\ completions'[j] # (IF j \in DOMAIN completions
                                                          THEN completions[j] ELSE 0))
          => Cardinality(RecordsOf(recordings', j)) = 1]_vars

\* C4: no job id ever has more than one Recording Record, however often its
\* completion is handled
C4_AtMostOneRecordPerJob ==
    \A n \in 1..Len(jobs) : Cardinality(RecordsOf(recordings, EgressId(n))) <= 1

C4_Witness ==
    \E j \in DOMAIN completions :
        /\ completions[j] >= 2
        /\ Cardinality(RecordsOf(recordings, j)) = 1
        /\ now > 0

\* C5: a start or stop request by an identity that is not the session's creator
\* is answered 403, calls nothing and changes no session
C5_NonCreatorRejected ==
    [][(/\ BeginOf({"start", "stop"})
        /\ sessionExists(sessions, last'.sid)
        /\ sessions[last'.sid].creatorIdentity # last'.identity)
       => (last'.status = 403 /\ NothingIssued /\ NoEffect)]_vars

C5_Witness ==
    /\ last.op = "stop" /\ last.status = 403
    /\ sessionExists(sessions, last.sid)
    /\ sessions[last.sid].isRecording
    /\ sessions[last.sid].creatorIdentity # last.identity

\* C6 as stated: every start request for a session that is already recording is
\* answered 400
C6_StartWhileRecordingIs400 ==
    [][(/\ BeginOf({"start"})
        /\ sessionExists(sessions, last'.sid)
        /\ sessions[last'.sid].isRecording)
       => last'.status = 400]_vars

\* C6: a start or stop for an absent session is answered 404, a start by the
\* creator while recording and a stop by the creator while not recording are
\* answered 400; a rejected request calls nothing and changes nothing
C6_PreconditionRejections ==
    [][(BeginOf({"start", "stop"}) =>
          LET sid == last'.sid
              byCreator == sessionExists(sessions, sid)
                           /\ sessions[sid].creatorIdentity = last'.identity
          IN  /\ ~sessionExists(sessions, sid) => last'.status = 404
              /\ (byCreator /\ last'.op = "start" /\ sessions[sid].isRecording)
                    => last'.status = 400
              /\ (byCreator /\ last'.op = "stop" /\ ~sessions[sid].isRecording)
                    => last'.status = 400
              /\ last'.status \in {400, 404} => (NothingIssued /\ NoEffect))]_vars

C6_Witness ==
    /\ last.op = "start" /\ last.status = 400
    /\ sessions[last.sid].isRecording
    /\ sessions[last.sid].creatorIdentity = last.identity

Unset(creator) == creator = Null \/ StartsWithCreator(creator)

JoinAnswered == Len(inflight') = Len(inflight) - 1 /\ last'.op = "join" /\ last'.status = 200

\* the answered join still holds the session object that is registered
HoldsRegistered ==
    \E i \in 1..Len(inflight) :
        /\ inflight' = Remove(inflight, i)
        /\ sessionExists(sessions, inflight[i].sid)
        /\ inflight[i].oid = sessions[inflight[i].sid].oid

\* C7: the identity of a successful join of a session without creator becomes
\* its creatorIdentity, and a join never changes a creator that is set
C7_FirstJoinerIsCreator ==
    [][(JoinAnswered /\ HoldsRegistered) =>
          LET before == sessions[last'.sid].creatorIdentity
              after == sessions'[last'.sid].creatorIdentity
          IN  IF Unset(before) THEN after = last'.identity ELSE after = before]_vars

JoinStep == last'.op = "join" /\ (nreq' = nreq + 1 \/ Len(inflight') = Len(inflight) - 1)

\* C8: a join for a valid-format identifier leaves the registry with exactly
\* that identifier added if it was absent, returns an existing session as it
\* was (its creator may be assigned), and touches no other session
C8_JoinIsIdempotentCreate ==
    [][(JoinStep /\ isValidFormat(last'.sid)) =>
          LET sid == last'.sid IN
          /\ DOMAIN sessions' = DOMAIN sessions \cup {sid}
          /\ sessions'[sid].sessionId = sid
          /\ \A other \in DOMAIN sessions \ {sid} : sessions'[other] = sessions[other]
          /\ sessionExists(sessions, sid) =>
                sessions' = [sessions EXCEPT ![sid].creatorIdentity =
                                                sessions'[sid].creatorIdentity]]_vars

C8_Witness ==
    /\ last.op = "join" /\ last.status = 200 /\ last.identity = Bob
    /\ nreq >= 2
    /\ DOMAIN sessions = {last.sid}
    /\ sessions[last.sid].creatorIdentity = Alice

\* C9 as stated: every join with a malformed identifier is answered 400
C9_MalformedJoinIs400 ==
    [][(BeginOf({"join"}) /\ ~isValidFormat(last'.sid)) => last'.status = 400]_vars

\* C9: a join with a malformed identifier under which no session exists is
\* answered 400, issues no token and leaves the registry unchanged
C9_MalformedJoinRejected ==
    [][(/\ BeginOf({"join"})
        /\ ~MatchesOldFormat(last'.sid) /\ ~MatchesNewFormat(last'.sid)
        /\ ~sessionExists(sessions, last'.sid))
       => (last'.status = 400 /\ NothingIssued /\ NoEffect)]_vars

C9_Witness ==
    /\ last.op = "join" /\ last.status = 400
    /\ last.sid = SidLong
    /\ DOMAIN sessions # {}

\* C10: a start that passes the route's checks while the storage credentials
\* are missing is answered with an error, calls nothing and records nothing
C10_NoStartWithoutStorageConfig ==
    [][(/\ BeginOf({"start"})
        /\ ~config.r2
        /\ sessionExists(sessions, last'.sid)
        /\ sessions[last'.sid].creatorIdentity = last'.identity
        /\ ~sessions[last'.sid].isRecording)
       => (/\ last'.status = 500 /\ NothingIssued /\ NoEffect
           /\ Len(jobs') = 0
           /\ \A sid \in DOMAIN sessions' : ~sessions'[sid].isRecording)]_vars

C10_Witness ==
    /\ ~config.r2
    /\ last.op = "start" /\ last.status = 500
    /\ sessionExists(sessions, last.sid)
    /\ sessions[last.sid].creatorIdentity = last.identity

StartAnswered == Len(inflight') = Len(inflight) - 1 /\ last'.op = "start"

\* C11: a start whose room has no participants is answered with the 400
\* precondition error, starts no egress job and leaves the session as it was
C11_EmptyRoomIsPreconditionFailed ==
    [][(StartAnswered /\ last'.note = "empty")
       => (/\ last'.status = 400
           /\ jobs' = jobs
           /\ sessions' = sessions)]_vars

Completed(j) ==
    /\ j \in DOMAIN completions'
    /\ completions'[j] # (IF j \in DOMAIN completions THEN completions[j] ELSE 0)

\* C12: when completion handling runs for the job id a session holds, that
\* session afterwards is not recording and holds no job id, whatever the
\* terminal status, and its creator's next start is not answered 400
C12_CompletionClearsFlag ==
    [][\A j \in DOMAIN completions' : \A sid \in HoldersOf(sessions, j) :
          Completed(j) =>
             /\ ~sessions'[sid].isRecording
             /\ sessions'[sid].recordingEgressId = Null
             /\ StartPrecheck(sessions', sid, sessions'[sid].creatorIdentity) = 0]_vars

C12_Witness ==
    /\ last.op \in {"egress_ended", "egress_failed"}
    /\ \E n \in 1..Len(jobs) :
         /\ jobs[n].status \in {EGRESS_FAILED, EGRESS_ABORTED}
         /\ RecordsOf(recordings, EgressId(n)) # {}
         /\ sessionExists(sessions, jobs[n].room)
         /\ ~sessions[jobs[n].room].isRecording

\* a property read of a stored object: absent properties read as null
Field(r, f) == IF f \in DOMAIN r THEN r[f] ELSE Null

TerminalStatusOf(egressId) ==
    IF JobExists(jobs, egressId)
    THEN normalizeStatus(jobs[JobIndex(jobs, egressId)].status) ELSE Null

\* C13: every stored record carries the terminal status of its job and has an
\* error exactly when that status is EGRESS_FAILED or EGRESS_ABORTED
C13_RecordCarriesStatusAndError ==
    \A id \in DOMAIN recordings :
        LET r == recordings[id] IN
        /\ Field(r, "status") = TerminalStatusOf(r.egressId)
        /\ Field(r, "error") # Null
              <=> Field(r, "status") \in {"EGRESS_FAILED", "EGRESS_ABORTED"}

\* C14: the stored duration is the time from the holding session's
\* recordingStartedAt to the completion handling, in whole seconds rounded
\* down, and is not negative
C14_DurationIsWholeSeconds ==
    [][\A j \in DOMAIN completions' : \A sid \in HoldersOf(sessions, j) :
          Completed(j) =>
             \E id \in RecordsOf(recordings', j) :
                LET r == recordings'[id]
                    start == sessions[sid].recordingStartedAt
                IN  /\ r.startedAt = start /\ r.endedAt = now
                    /\ r.duration >= 0
                    /\ r.duration * 1000 <= now - start
                    /\ now - start < (r.duration + 1) * 1000]_vars

C14_Witness ==
    \E id \in DOMAIN recordings :
        /\ recordings[id].duration >= 1
        /\ (recordings[id].endedAt - recordings[id].startedAt) % 1000 # 0

\* C15: every save adds one record under a new id and leaves every record
\* stored before as it was
C15_StoreIsAppendOnly ==
    [][\A j \in DOMAIN completions' :
          (Completed(j) /\ HoldersOf(sessions, j) # {}) =>
             /\ Cardinality(DOMAIN recordings') = Cardinality(DOMAIN recordings) + 1
             /\ \A id \in DOMAIN recordings : recordings'[id] = recordings[id]]_vars

HookStep == nhook' = nhook + 1
Authorized == last'.note # "unauthorized"
HandlerThrew == last'.note \in {"room", "participant", "egress"}
StoresUntouched ==
    /\ sessions' = sessions /\ recordings' = recordings
    /\ completions' = completions /\ jobs' = jobs /\ inflight' = inflight

\* C16: a webhook request without the configured bearer secret is answered
\* 401 and changes nothing, whatever its event kind
C16_UnauthorizedHasNoEffect ==
    [][(HookStep /\ ~Authorized)
       => (last'.status = 401 /\ last'.calls = {} /\ StoresUntouched)]_vars

C16_Witness ==
    /\ last.note = "unauthorized" /\ last.op = "egress_ended"
    /\ \E n \in 1..Len(jobs) :
         IsTerminal(jobs[n].status) /\ HoldersOf(sessions, EgressId(n)) # {}

C18_EndedAndFailedAlike ==
    [][(HookStep /\ Authorized /\ ~HandlerThrew
          /\ last'.op \in {"egress_ended", "egress_failed"})
       => \E n \in 1..Len(jobs), file \in FileInfos :
             LET done == handleRecordingComplete(sessions, recordings, EgressId(n),
                                                 jobs[n].status, file, now)
             IN  /\ Completed(EgressId(n))
                 /\ sessions' = done.sessions
                 /\ recordings' = done.recordings
                 /\ last'.status = 200]_vars

C18_Witness ==
    /\ last.op = "egress_failed" /\ last.status = 200
    /\ nhook = 1
    /\ DOMAIN recordings # {}
    /\ ~sessions[last.sid].isRecording

\* C19: a participant_joined or participant_left event makes no egress call
\* and leaves isRecording and the job id of every session as they were
C19_ParticipantEventsDoNotRecord ==
    [][(HookStep /\ Authorized
          /\ last'.op \in {"participant_joined", "participant_left"})
       => (/\ last'.calls = {} /\ inflight' = inflight /\ jobs' = jobs
           /\ \A sid \in DOMAIN sessions' :
                IF sessionExists(sessions, sid)
                THEN /\ sessions'[sid].isRecording = sessions[sid].isRecording
                     /\ sessions'[sid].recordingEgressId = sessions[sid].recordingEgressId
                ELSE /\ ~sessions'[sid].isRecording
                     /\ sessions'[sid].recordingEgressId = Null)]_vars

C19_Witness ==
    /\ last.op = "participant_left" /\ last.status = 200
    /\ sessions[last.sid].isRecording
    /\ getParticipantCount(sessions, last.sid) = 0

Unhandled(kind) ==
    kind \notin {"participant_joined", "participant_left", "egress_ended", "egress_failed"}

\* C20 as stated: every authorized webhook of kind egress_started or of an
\* unrecognized kind is answered 200
C20_IgnoredKindsAre200 ==
    [][(HookStep /\ Authorized /\ Unhandled(last'.op)) => last'.status = 200]_vars

\* C20: an authorized webhook of an unrecognized kind, or of kind
\* egress_started, changes no state, and is answered 200 unless it is an
\* egress_started without egress object
C20_IgnoredKindsChangeNothing ==
    [][(HookStep /\ Authorized /\ Unhandled(last'.op))
       => (/\ StoresUntouched
           /\ last'.status = 200 <=> ~(last'.op = "egress_started" /\ HandlerThrew))]_vars

C20_Witness ==
    /\ last.op = "egress_started" /\ last.status = 200
    /\ \E n \in 1..Len(jobs) :
         IsTerminal(jobs[n].status) /\ HoldersOf(sessions, EgressId(n)) # {}

\* C21: a participant_left event for an unknown room is acknowledged 200 and
\* leaves a session for it with no participants; a participant_joined event
\* for an unknown room leaves a session for it that contains the participant
C21_ParticipantEventsAutoCreate ==
    [][(HookStep /\ Authorized /\ ~HandlerThrew
          /\ last'.op \in {"participant_joined", "participant_left"}
          /\ ~sessionExists(sessions, last'.sid))
       => (/\ last'.status = 200
           /\ DOMAIN sessions' = DOMAIN sessions \cup {last'.sid}
           /\ sessions'[last'.sid].participants =
                 IF last'.op = "participant_left" THEN <<>> ELSE <<last'.identity>>
           /\ \A sid \in DOMAIN sessions : sessions'[sid] = sessions[sid])]_vars

C21_Witness ==
    /\ last.op = "participant_left" /\ last.status = 200
    /\ nreq = 0 /\ nhook = 1
    /\ sessionExists(sessions, last.sid)
    /\ sessions[last.sid].participants = <<>>

\* C25: every session is stored under its sessionId and has that id as its
\* roomName, and a successful join answers for the requested id, with the
\* identity of the request when one was given
C25_SessionIdIsRoomName ==
    [][/\ \A sid \in DOMAIN sessions' :
            sessions'[sid].sessionId = sid /\ sessions'[sid].roomName = sid
       /\ JoinAnswered =>
            \E i \in 1..Len(inflight) :
               /\ inflight' = Remove(inflight, i)
               /\ last'.sid = inflight[i].sid
               /\ inflight[i].identity # Null => last'.identity = inflight[i].identity
               /\ sessionExists(sessions', last'.sid)
               /\ sessions'[last'.sid].roomName = last'.sid]_vars

C25_Witness ==
    /\ last.op = "join" /\ last.status = 200 /\ last.identity = Bob
    /\ last.sid = SidRoom
    /\ sessions[SidRoom].roomName = SidRoom

CallOf(ops) == nreq' = nreq + 1 /\ last'.op \in ops /\ last'.note = Null

NoDuplicates(seq) == \A i, j \in 1..Len(seq) : seq[i] = seq[j] => i = j

\* every session but sid, and the set of sessions, stay as they are
OthersUnchanged(sid) ==
    /\ DOMAIN sessions' = DOMAIN sessions \cup {sid}
    /\ \A other \in DOMAIN sessions \ {sid} : sessions'[other] = sessions[other]

\* C22: addParticipant of an identity already in the session and
\* removeParticipant of an identity not in it change nothing, and no
\* participant list ever holds an identity twice
C22_ParticipantsAreASet ==
    [][/\ \A sid \in DOMAIN sessions' : NoDuplicates(sessions'[sid].participants)
       /\ (CallOf({"addParticipant"})
             /\ Includes(sessions[last'.sid].participants, last'.identity))
          => sessions' = sessions
       /\ (CallOf({"removeParticipant"}) /\ sessionExists(sessions, last'.sid)
             /\ ~Includes(sessions[last'.sid].participants, last'.identity))
          => sessions' = sessions
       /\ (CallOf({"addParticipant"})
             /\ ~Includes(sessions[last'.sid].participants, last'.identity))
          => sessions'[last'.sid].participants =
                Append(sessions[last'.sid].participants, last'.identity)
       /\ (CallOf({"removeParticipant"}) /\ sessionExists(sessions, last'.sid))
          => ~Includes(sessions'[last'.sid].participants, last'.identity)]_vars

C22_Witness ==
    /\ last.op = "addParticipant" /\ last.note = Null /\ nreq = 3
    /\ sessions[last.sid].participants = <<last.identity>>
    /\ \A sid \in DOMAIN sessions \ {last.sid} : sessions[sid].participants = <<>>

\* C23: createOrGetSession creates the session when the id is unknown, returns
\* the existing one untouched when it is known, and repeating it changes
\* nothing more
C23_CreateOrGetIsUpsert ==
    [][CallOf({"createOrGetSession"})
       => (/\ OthersUnchanged(last'.sid)
           /\ sessions'[last'.sid] =
                 IF sessionExists(sessions, last'.sid) THEN sessions[last'.sid]
                 ELSE NewSession(last'.sid, last'.identity, now, 1)
           /\ createOrGetSession(sessions', last'.sid, last'.identity, now') = sessions')]_vars

C23_Witness ==
    /\ last.op = "createOrGetSession" /\ nreq = 4
    /\ sessions[last.sid].isRecording
    /\ sessions[last.sid].participants # <<>>
    /\ sessions[last.sid].creatorIdentity # last.identity

\* C24: setRecording makes the session recording with the given job id,
\* clearRecording makes it not recording with no job id, and neither touches
\* the participants, the creator or another session
C24_SetAndClearRecording ==
    [][/\ (CallOf({"setRecording"}) /\ UNCHANGED now)
          => (/\ OthersUnchanged(last'.sid)
              /\ sessions'[last'.sid] =
                    [sessions[last'.sid] EXCEPT !.isRecording = TRUE,
                                                !.recordingEgressId = last'.identity,
                                                !.recordingStartedAt = now])
       /\ (CallOf({"clearRecording"}) /\ sessionExists(sessions, last'.sid))
          => (/\ OthersUnchanged(last'.sid)
              /\ sessions'[last'.sid] =
                    [sessions[last'.sid] EXCEPT !.isRecording = FALSE,
                                                !.recordingEgressId = Null])
       /\ (CallOf({"clearRecording"}) /\ ~sessionExists(sessions, last'.sid))
          => sessions' = sessions]_vars

C24_Witness ==
    /\ last.op = "clearRecording"
    /\ sessionExists(sessions, last.sid)
    /\ sessions[last.sid].recordingStartedAt # NoTime
    /\ ~sessions[last.sid].isRecording
    /\ sessions[last.sid].recordingEgressId = Null
    /\ \E other \in DOMAIN sessions : other # last.sid /\ sessions[other].isRecording

\* C26: GET of an unknown session is answered 404 and creates nothing; GET
\* of a known session changes nothing and reports the size of its
\* participant list and its isRecording flag
C26_GetIsPureLookup ==
    [][BeginOf({"get"})
       => (/\ UNCHANGED <<sessions, recordings, jobs, inflight, completions, started>>
           /\ IF sessionExists(sessions, last'.sid)
                 THEN /\ last'.status = 200
                      /\ last'.body.participantCount = Len(sessions[last'.sid].participants)
                      /\ last'.body.isRecording = sessions[last'.sid].isRecording
                 ELSE last'.status = 404)]_vars

C26_Witness ==
    /\ last.op = "get" /\ last.status = 404
    /\ ~sessionExists(sessions, last.sid)
    /\ \E sid \in DOMAIN sessions :
          sessions[sid].isRecording /\ Len(sessions[sid].participants) = 2

\* C27: whenever a session goes from recording job j to not recording, a
\* record of job j is in the Metadata Store
C27_ClearedOnlyAfterRecordSaved ==
    [][\A sid \in DOMAIN sessions :
          (sessions[sid].isRecording /\ ~sessions'[sid].isRecording)
          => RecordsOf(recordings', sessions[sid].recordingEgressId) # {}]_vars

\* the session was not recording before this step
BecameRecording(sid) ==
    /\ sessions'[sid].isRecording
    /\ sid \in DOMAIN sessions => ~sessions[sid].isRecording

\* C28: a start answered 200 has stored, and returned, the id of the job the
\* egress service accepted for the room, and a session becomes recording in
\* no other step
C28_StartRecordsReturnedJob ==
    [][/\ (StartAnswered /\ last'.status = 200)
          => \E i \in 1..Len(inflight) :
                /\ inflight' = Remove(inflight, i)
                /\ JobExists(jobs, inflight[i].result)
                /\ jobs[JobIndex(jobs, inflight[i].result)].room = last'.sid
                /\ sessions'[last'.sid].isRecording
                /\ sessions'[last'.sid].recordingEgressId = inflight[i].result
                /\ last'.body.egressId = inflight[i].result
       /\ \A sid \in DOMAIN sessions' :
             BecameRecording(sid)
             => (/\ StartAnswered /\ last'.status = 200 /\ last'.sid = sid
                 /\ JobExists(jobs, sessions'[sid].recordingEgressId))]_vars

C28_Witness ==
    /\ last.op = "start" /\ last.status = 200
    /\ sessions[last.sid].isRecording
    /\ sessions[last.sid].recordingEgressId = last.body.egressId
    /\ JobExists(jobs, last.body.egressId)

\* why startRecording threw
StartFailures == {"config", "error", "empty", "egress"}

\* C29: a start that fails (configuration, participant query, empty room,
\* egress API) is answered 500, changes no session and saves no record
C29_FailedStartLeavesNoTrace ==
    [][/\ ((BeginOf({"start"}) \/ StartAnswered) /\ last'.note \in StartFailures)
          => (/\ last'.status = 500
              /\ sessions' = sessions
              /\ recordings' = recordings
              /\ started' = started)
       /\ (StartAnswered /\ last'.status # 200) => last'.note \in StartFailures]_vars

C29_Witness ==
    /\ last.op = "start" /\ last.status = 500 /\ last.note = "egress"
    /\ sessionExists(sessions, last.sid)
    /\ ~sessions[last.sid].isRecording
    /\ sessions[last.sid].recordingEgressId = Null
    /\ DOMAIN recordings = {}

\* the stop handler i that has the answer of listEgress ends in this step
StopListedEnds(i) ==
    /\ inflight[i].op = "stop" /\ inflight[i].pc = "listEgress"
    /\ inflight' = Remove(inflight, i)
    /\ last'.op = "stop" /\ last'.sid = inflight[i].sid

\* C30: when listEgress reports the job as Complete or Ending, or reports no
\* such job, stopRecording sends no stop request, handles no completion and
\* changes neither the jobs nor the Metadata Store; the registry changes only
\* by the clearRecording of the stop route that called it
C30_StopOfEndedJobIsNoOp ==
    [][\A i \in 1..Len(inflight) :
          (/\ StopListedEnds(i)
           /\ Found(inflight[i].result, inflight[i].status)
                 \in {"EGRESS_COMPLETE", "EGRESS_ENDING", "empty"})
          => (/\ last'.calls = {}
              /\ last'.status = 200
              /\ completions' = completions
              /\ recordings' = recordings
              /\ jobs' = jobs
              /\ sessions' = StopFinish(sessions, inflight[i].sid))]_vars

C30_Witness ==
    /\ last.op = "stop" /\ last.status = 200 /\ last.note = "EGRESS_COMPLETE"
    /\ \E n \in 1..Len(jobs) : jobs[n].status = EGRESS_COMPLETE
    /\ DOMAIN recordings = {}
    /\ \A j \in DOMAIN completions : completions[j] = 0

FailureKinds == {"EGRESS_FAILED", "EGRESS_ABORTED"}

\* C31: when listEgress reports the job as Failed or Aborted, stopRecording
\* sends no stop request and handles the completion at once, so that the stop
\* is answered with the session not recording and exactly one record of the
\* job in the Metadata Store
C31_StopOfFailedJobCompletes ==
    [][\A i \in 1..Len(inflight) :
          (StopListedEnds(i)
             /\ Found(inflight[i].result, inflight[i].status) \in FailureKinds)
          => (/\ last'.calls = {}
              /\ Completed(inflight[i].egressId)
              /\ ~sessions'[inflight[i].sid].isRecording
              /\ Cardinality(RecordsOf(recordings', inflight[i].egressId)) = 1)]_vars

\* the stop handler i, waiting at pc, is resumed in this step
StopResumes(i, pc) ==
    /\ inflight[i].op = "stop" /\ inflight[i].pc = pc
    /\ last'.op = "stop" /\ last'.sid = inflight[i].sid
    /\ \/ inflight' = Remove(inflight, i)
       \/ Len(inflight') = Len(inflight) /\ inflight'[i].pc # pc

\* C32: a stop request that passed the checks is always answered 200; for an
\* Active or Starting job it sends one stop request and answers when that
\* returns, without handling a completion; after a failed_precondition it
\* re-queries the status and handles the completion exactly when the job is
\* found Failed or Aborted; any other error changes nothing
C32_StopNeverRaises ==
    [][\A i \in 1..Len(inflight) :
          /\ (StopResumes(i, "listEgress") \/ StopResumes(i, "stopEgress")
                \/ StopResumes(i, "relist"))
             => (inflight' = Remove(inflight, i) => last'.status = 200)
          /\ (StopResumes(i, "listEgress")
                /\ Found(inflight[i].result, inflight[i].status)
                      \in {"EGRESS_ACTIVE", "EGRESS_STARTING"})
             => (/\ last'.calls = {"stopEgress"}
                 /\ inflight'[i].pc = "stopEgress"
                 /\ UNCHANGED <<sessions, recordings, completions>>)
          /\ StopResumes(i, "stopEgress")
             => (/\ UNCHANGED <<recordings, completions, jobs>>
                 /\ IF inflight[i].result = "412"
                       THEN last'.calls = {"listEgress"} /\ inflight'[i].pc = "relist"
                       ELSE last'.calls = {} /\ inflight' = Remove(inflight, i))
          /\ StopResumes(i, "relist")
             => (/\ last'.calls = {}
                 /\ UNCHANGED jobs
                 /\ IF Found(inflight[i].result, inflight[i].status) \in FailureKinds
                       THEN Completed(inflight[i].egressId)
                       ELSE UNCHANGED <<recordings, completions>>)]_vars

C32_Witness ==
    /\ last.op = "stop" /\ last.status = 200
    /\ last.note = Rechecked("found", EGRESS_FAILED)
    /\ \E j \in DOMAIN completions : completions[j] = 1 /\ RecordsOf(recordings, j) # {}

\* C33: an egress_ended or egress_failed event is acknowledged 200 whatever
\* happens inside the completion handling; when a statement of it throws, the
\* error is logged and registry and Metadata Store stay as they were
C33_CompletionNeverRaises ==
    [][(HookStep /\ last'.op \in {"egress_ended", "egress_failed"})
       => (/\ last'.status = 200
           /\ last'.note \in {Null, "logged"}
           /\ last'.note = "logged" => UNCHANGED <<sessions, recordings>>)]_vars

C33_Witness ==
    /\ last.op = "egress_ended" /\ last.status = 200 /\ last.note = "logged"
    /\ sessions[last.sid].isRecording
    /\ \E j \in DOMAIN completions :
          /\ completions[j] = 1
          /\ sessions[last.sid].recordingEgressId = j
          /\ RecordsOf(recordings, j) = {}

\* the start handler i returns from the egress service with a job in this step
StartReturns(i) ==
    /\ inflight[i].op = "start" /\ inflight[i].pc = "startEgress"
    /\ inflight[i].result # "error"
    /\ inflight' = Remove(inflight, i)
    /\ last'.op = "start" /\ last'.sid = inflight[i].sid

\* C34: setRecording on a session that is already recording job A raises
\* nothing and replaces A by the new job id, with a new start time, after
\* which no session holds A
C34_SetRecordingOverwrites ==
    [][\A i \in 1..Len(inflight) :
          (StartReturns(i) /\ sessions[inflight[i].sid].isRecording)
          => LET sid == inflight[i].sid
                 jobA == sessions[sid].recordingEgressId
                 jobB == inflight[i].result
             IN  /\ last'.status = 200
                 /\ sessions'[sid] = [sessions[sid] EXCEPT !.recordingEgressId = jobB,
                                                           !.recordingStartedAt = now]
                 /\ jobA # jobB
                 /\ HoldersOf(sessions', jobA) = {}]_vars

C34_Witness ==
    /\ last.op = "start" /\ last.status = 200
    /\ Cardinality(started) = 2
    /\ DOMAIN completions = {}
    /\ nreq = 3
    /\ sessions[last.sid].recordingEgressId = last.body.egressId
    /\ \E j \in started : HoldersOf(sessions, j) = {}

\* C35: addParticipant and removeParticipant called for a session that does
\* not exist both signal 'Session not found' and create no session
C35_ParticipantCallsOnMissingSession ==
    [][(nreq' = nreq + 1
          /\ last'.op \in {"addParticipant", "removeParticipant"}
          /\ ~sessionExists(sessions, last'.sid))
       => (last'.note = "Session not found" /\ sessions' = sessions)]_vars

\* C36: createSession stores the new session under an identifier that no
\* session has: one session more, no existing session replaced or altered,
\* and the new one not recording, without job id and without participants
C36_CreateNeverReplaces ==
    [][BeginOf({"create"})
       => (/\ ~sessionExists(sessions, last'.sid)
           /\ Cardinality(DOMAIN sessions') = Cardinality(DOMAIN sessions) + 1
           /\ \A sid \in DOMAIN sessions : sessions'[sid] = sessions[sid]
           /\ ~sessions'[last'.sid].isRecording
           /\ sessions'[last'.sid].recordingEgressId = Null
           /\ sessions'[last'.sid].participants = <<>>)]_vars

\* C37: no step of any handler removes a session identifier from the registry
C37_SessionsAreNeverDeleted ==
    [][DOMAIN sessions \subseteq DOMAIN sessions']_vars

C37_Witness ==
    /\ nreq = MaxRequests /\ nhook = MaxHooks
    /\ Cardinality(DOMAIN sessions) = 2
    /\ \E j \in DOMAIN completions : completions[j] >= 1 /\ RecordsOf(recordings, j) # {}

\* C38: a stop request for job j1 that is answered after j1's completion was
\* handled, while the session records another job, leaves that session's
\* flag and job id alone
C38_StopClearsOnlyItsJob ==
    [][\A i \in 1..Len(inflight) :
          (/\ inflight[i].op = "stop"
           /\ inflight' = Remove(inflight, i)
           /\ last'.op = "stop" /\ last'.sid = inflight[i].sid
           /\ RecordsOf(recordings, inflight[i].egressId) # {}
           /\ sessions[inflight[i].sid].isRecording
           /\ sessions[inflight[i].sid].recordingEgressId # inflight[i].egressId)
          => (/\ sessions'[inflight[i].sid].isRecording
              /\ sessions'[inflight[i].sid].recordingEgressId
                    = sessions[inflight[i].sid].recordingEgressId)]_vars

\* the jobs a start request was answered with that are running and that no
\* accepted stop request has put to an end
RunningUnstopped(sid) ==
    {n \in 1..Len(jobs) :
        /\ jobs[n].room = sid
        /\ EgressId(n) \in started
        /\ jobs[n].status \in {EGRESS_STARTING, EGRESS_ACTIVE}}

\* C39: a session that is not recording has no started job that is still
\* Starting or Active in the egress service
C39_NoRunningJobWhenIdle ==
    \A sid \in DOMAIN sessions :
        ~sessions[sid].isRecording => RunningUnstopped(sid) = {}

\* C40: handling the completion of a job that no session holds saves nothing
\* and changes no session; for a job held by session A it saves a record with
\* sessionId A and changes only A's recording flag and job id
C40_CompletionTouchesOnlyHolder ==
    [][\A j \in DOMAIN completions' :
          (HookStep /\ Completed(j))
          => IF HoldersOf(sessions, j) = {}
                THEN sessions' = sessions /\ recordings' = recordings
                ELSE \E sid \in HoldersOf(sessions, j) :
                       /\ sessions' = [sessions EXCEPT ![sid].isRecording = FALSE,
                                                       ![sid].recordingEgressId = Null]
                       /\ \E id \in DOMAIN recordings' :
                             /\ recordings'[id].sessionId = sid
                             /\ recordings'[id].egressId = j
                             /\ \A other \in DOMAIN recordings' \ {id} :
                                   /\ other \in DOMAIN recordings
                                   /\ recordings'[other] = recordings[other]]_vars

C40_Witness ==
    /\ last.op = "egress_ended" /\ last.status = 200
    /\ Cardinality(DOMAIN sessions) = 2
    /\ sessions[last.sid].participants = <<Bob>>
    /\ sessions[last.sid].creatorIdentity = Alice
    /\ ~sessions[last.sid].isRecording
    /\ \E id \in DOMAIN recordings : recordings[id].sessionId = last.sid

====
